---- MODULE Spec2Model ----
(***************************************************************************)
(* The notebook eda_air_py.ipynb as a state machine.  The state is the     *)
(* Python kernel's namespace (the variables the cells assign), the last    *)
(* cell output, and the two data files the notebook reads.  There is one   *)
(* action per code cell.  pandas / geopandas / plotnine calls are pure     *)
(* operators over column-oriented frames.                                  *)
(***************************************************************************)
EXTENDS Integers, Sequences, FiniteSets, TLC

VARIABLES files, ns, out, pc, mode

vars == <<files, ns, out, pc, mode>>

(***************************************************************************)
(* Bounds of the model and facts about the data stated in the notebook.    *)
(***************************************************************************)
\* monitors listed in the file after the first monitor of each country
MaxExtra == 1
\* countries, the first ones surveyed, that may have further monitors
MaxRepeated == 2
\* rows of the world map
MaxMapRows == 3
\* every string of an object column, in Python's string order
Collation ==
    << "-99", "BRA", "CHN", "Central Europe", "EGY", "High income", "IND",
       "Latin America", "NA", "NGA", "North Africa", "POL", "South Asia",
       "Southeast Asia", "Sub-Saharan Africa", "USA" >>

Rank(s) == CHOOSE i \in 1..Len(Collation) : Collation[i] = s

\* the surveyed countries in the order of their first monitor in the file;
\* super-region (one of 7) and cluster (one of 6) are groupings of countries
World ==
    << [ iso3 |-> "CHN", super_region_name |-> "Southeast Asia", cluster_region |-> 5 ],
       [ iso3 |-> "USA", super_region_name |-> "High income", cluster_region |-> 1 ],
       [ iso3 |-> "IND", super_region_name |-> "South Asia", cluster_region |-> 6 ],
       [ iso3 |-> "POL", super_region_name |-> "Central Europe", cluster_region |-> 2 ],
       [ iso3 |-> "BRA", super_region_name |-> "Latin America", cluster_region |-> 3 ],
       [ iso3 |-> "EGY", super_region_name |-> "North Africa", cluster_region |-> 4 ],
       [ iso3 |-> "NGA", super_region_name |-> "Sub-Saharan Africa", cluster_region |-> 4 ] >>

(***************************************************************************)
(* Sequences.                                                              *)
(***************************************************************************)
Range(s) == { s[i] : i \in 1..Len(s) }

SeqsUpTo(S, lo, hi) == UNION { [1..k -> S] : k \in lo..hi }

\* the elements of s at the positions idx, in the order of idx
Take(s, idx) == [ k \in 1..Len(idx) |-> s[idx[k]] ]

IndexOf(s, v) == CHOOSE i \in 1..Len(s) : s[i] = v

RECURSIVE SortedBy(_, _)
\* the set S as a sequence in increasing order of key (a function on S)
SortedBy(S, key) ==
    IF S = {} THEN << >>
    ELSE LET m == CHOOSE x \in S : \A y \in S : key[x] <= key[y]
         IN  << m >> \o SortedBy(S \ {m}, key)

\* the positions 1..n of which keep holds, in increasing order
Positions(n, keep) ==
    LET S == { i \in 1..n : keep[i] }
    IN  SortedBy(S, [ i \in S |-> i ])

(***************************************************************************)
(* The data files.                                                         *)
(***************************************************************************)
\* data/air_spdf.geojson: one feature per ground monitor
AirFile(n, extra) ==
    LET who == [ i \in 1..n |-> i ] \o extra
    IN  [ k \in 1..Len(who) |->
            [ iso3 |-> World[who[k]].iso3,
              super_region_name |-> World[who[k]].super_region_name,
              cluster_region |-> World[who[k]].cluster_region,
              log_pm25 |-> k ] ]

AirFiles ==
    UNION { { AirFile(n, extra) :
                extra \in SeqsUpTo(1..(IF n < MaxRepeated THEN n ELSE MaxRepeated),
                                   0, MaxExtra) } :
            n \in 1..Len(World) }

\* the ISO_A3 values of the map: two surveyable countries and Natural
\* Earth's code for "no ISO code"
MapCodes == { World[1].iso3, World[3].iso3, "-99" }

\* data/ne_110m_admin_0_countries.shp: one feature per country outline
MapFile(codes) == [ k \in 1..Len(codes) |-> [ NE_ID |-> k, ISO_A3 |-> codes[k] ] ]

MapFiles == { MapFile(codes) : codes \in SeqsUpTo(MapCodes, 1, MaxMapRows) }

(***************************************************************************)
(* Frames.  A frame is a record of columns of one length.  A column has a  *)
(* dtype, its values, and the set na of positions whose value is missing.  *)
(* A categorical column is stored as pandas stores it: the categories and  *)
(* one code per row, 0-based, -1 for a missing value.                      *)
(***************************************************************************)
Plain(dtype, values) ==
    [ dtype |-> dtype, categories |-> << >>, values |-> values, na |-> {} ]

NRows(frame) == Len(frame[CHOOSE c \in DOMAIN frame : TRUE].values)

IsNa(col, i) ==
    IF col.dtype = "category" THEN col.values[i] = -1 ELSE i \in col.na

\* the value of row i of a column that is not missing there
Val(col, i) ==
    IF col.dtype = "category" THEN col.categories[col.values[i] + 1]
    ELSE col.values[i]

\* the order of the values of a column of strings or of integers
SortKey(dtype, v) == IF dtype = "object" THEN Rank(v) ELSE v

\* gpd.read_file: strings are read as object, integers as int
ReadAir(file) ==
    [ iso3 |-> Plain("object", [ k \in 1..Len(file) |-> file[k].iso3 ]),
      super_region_name |->
          Plain("object", [ k \in 1..Len(file) |-> file[k].super_region_name ]),
      cluster_region |->
          Plain("int", [ k \in 1..Len(file) |-> file[k].cluster_region ]),
      log_pm25 |-> Plain("float", [ k \in 1..Len(file) |-> file[k].log_pm25 ]) ]

ReadMap(file) ==
    [ NE_ID |-> Plain("int", [ k \in 1..Len(file) |-> file[k].NE_ID ]),
      ISO_A3 |-> Plain("object", [ k \in 1..Len(file) |-> file[k].ISO_A3 ]) ]

\* Series.astype('category'): the categories are the sorted distinct values
AsCategory(col) ==
    LET present == { col.values[i] : i \in (1..Len(col.values)) \ col.na }
        cats == SortedBy(present, [ v \in present |-> SortKey(col.dtype, v) ])
    IN  [ dtype |-> "category", categories |-> cats,
          values |-> [ i \in 1..Len(col.values) |->
                         IF i \in col.na THEN -1
                         ELSE IndexOf(cats, col.values[i]) - 1 ],
          na |-> {} ]

\* mutant of SelectDtypes: only the string columns are selected
SelectDtypes_ObjectOnly(frame) == { c \in DOMAIN frame : frame[c].dtype = "object" }

\* frame.select_dtypes(['int', 'object']).columns
SelectDtypes(frame) == { c \in DOMAIN frame : frame[c].dtype \in {"int", "object"} }

\* frame.astype({col: 'category' for col in cols})
AsType(frame, cols) ==
    [ c \in DOMAIN frame |-> IF c \in cols THEN AsCategory(frame[c]) ELSE frame[c] ]

\* the rows idx of a column; position 0 of idx stands for "no row"
TakeCol(col, idx) ==
    IF col.dtype = "category"
    THEN [ col EXCEPT !.values =
             [ k \in 1..Len(idx) |-> IF idx[k] = 0 THEN -1 ELSE col.values[idx[k]] ] ]
    ELSE LET miss == { k \in 1..Len(idx) : idx[k] = 0 \/ idx[k] \in col.na }
             fill == IF col.dtype = "object" THEN "" ELSE 0
         IN  [ dtype |-> IF col.dtype = "int" /\ miss # {} THEN "float" ELSE col.dtype,
               categories |-> << >>,
               values |-> [ k \in 1..Len(idx) |->
                              IF k \in miss THEN fill ELSE col.values[idx[k]] ],
               na |-> miss ]

TakeRows(frame, idx) == [ c \in DOMAIN frame |-> TakeCol(frame[c], idx) ]

\* frame[cols]
Columns(frame, cols) == [ c \in cols |-> frame[c] ]

\* two key values are equal; missing keys match each other
KeyEq(a, i, b, j) ==
    IF IsNa(a, i) \/ IsNa(b, j) THEN IsNa(a, i) /\ IsNa(b, j)
    ELSE Val(a, i) = Val(b, j)

\* frame.drop_duplicates(subset=[key]): the first row of every key
DropDuplicates(frame, key) ==
    LET col == frame[key]
        n == NRows(frame)
    IN  TakeRows(frame,
            Positions(n, [ i \in 1..n |-> \A j \in 1..(i - 1) : ~KeyEq(col, i, col, j) ]))

RECURSIVE JoinPairs(_, _, _, _)
\* the (left row, right row) pairs of a left join from left row i on, in
\* the order of the left rows; a left row with no match pairs with 0
JoinPairs(lkey, rkey, how, i) ==
    IF i > Len(lkey.values) THEN << >>
    ELSE LET n == Len(rkey.values)
             hits == Positions(n, [ j \in 1..n |-> KeyEq(lkey, i, rkey, j) ])
             here == IF hits # << >> THEN [ k \in 1..Len(hits) |-> << i, hits[k] >> ]
                     ELSE IF how = "left" THEN << << i, 0 >> >> ELSE << >>
         IN  here \o JoinPairs(lkey, rkey, how, i + 1)

\* left.merge(right, left_on=.., right_on=.., how=..) for how in left and
\* inner; the two frames share no column name
Merge(left, right, left_on, right_on, how) ==
    LET pairs == JoinPairs(left[left_on], right[right_on], how, 1)
        lidx == [ k \in 1..Len(pairs) |-> pairs[k][1] ]
        ridx == [ k \in 1..Len(pairs) |-> pairs[k][2] ]
    IN  [ c \in DOMAIN left \cup DOMAIN right |->
            IF c \in DOMAIN left THEN TakeCol(left[c], lidx)
            ELSE TakeCol(right[c], ridx) ]

\* Series.cat.add_categories(new): the accessor exists on categorical
\* columns only, and a category that is already there is an error
AddCategories(col, new) ==
    IF col.dtype # "category" THEN [ status |-> "AttributeError", col |-> col ]
    ELSE IF Range(new) \cap Range(col.categories) # {}
    THEN [ status |-> "ValueError", col |-> col ]
    ELSE [ status |-> "ok", col |-> [ col EXCEPT !.categories = @ \o new ] ]

\* mutant of Fillna: the missing values are left as they are
Fillna_Skip(col, v) == [ status |-> "ok", col |-> col ]

\* frame[[c]].fillna(v): a categorical column takes only one of its categories
Fillna(col, v) ==
    IF col.dtype = "category"
    THEN IF v \notin Range(col.categories) THEN [ status |-> "TypeError", col |-> col ]
         ELSE [ status |-> "ok",
                col |-> [ col EXCEPT !.values =
                            [ i \in 1..Len(@) |->
                                IF @[i] = -1 THEN IndexOf(col.categories, v) - 1
                                ELSE @[i] ] ] ]
    ELSE [ status |-> "ok",
           col |-> [ col EXCEPT !.values = [ i \in 1..Len(@) |->
                                               IF i \in col.na THEN v ELSE @[i] ],
                                !.na = {} ] ]

\* frame[c] = col
SetColumn(frame, c, col) == [ frame EXCEPT ![c] = col ]

(***************************************************************************)
(* Series: an index of labels and one value per label.                     *)
(***************************************************************************)
\* frame.groupby(key).size(): one entry per category of a categorical key,
\* whether or not a row has it, in the order of the categories
GroupBySize(frame, key) ==
    LET col == frame[key]
        grouped == IF col.dtype = "category" THEN col ELSE AsCategory(col)
    IN  [ index |-> grouped.categories,
          values |-> [ k \in 1..Len(grouped.categories) |->
                         Cardinality({ i \in 1..Len(grouped.values) :
                                         grouped.values[i] = k - 1 }) ] ]

\* series.sort_values(ascending=..); equal values keep their order
SortValues(series, ascending) ==
    LET n == Len(series.values)
        key == [ i \in 1..n |->
                   (IF ascending THEN series.values[i] ELSE 0 - series.values[i])
                       * (n + 1) + i ]
        order == SortedBy(1..n, key)
    IN  [ index |-> Take(series.index, order), values |-> Take(series.values, order) ]

\* series.head(k)
HeadRows(series, k) ==
    LET m == IF Len(series.values) < k THEN Len(series.values) ELSE k
    IN  [ index |-> SubSeq(series.index, 1, m), values |-> SubSeq(series.values, 1, m) ]

\* frame[[key]].value_counts(): the distinct rows that occur, most frequent first
ValueCounts(frame, key) ==
    LET col == frame[key]
        n == Len(col.values)
        first == Positions(n, [ i \in 1..n |->
                     ~IsNa(col, i) /\ \A j \in 1..(i - 1) : ~KeyEq(col, i, col, j) ])
        counts == [ k \in 1..Len(first) |->
                      Cardinality({ i \in 1..n : KeyEq(col, i, col, first[k]) }) ]
    IN  SortValues([ index |-> [ k \in 1..Len(first) |-> Val(col, first[k]) ],
                     values |-> counts ], FALSE)

Max(S) == CHOOSE x \in S : \A y \in S : y <= x

Min(S) == CHOOSE x \in S : \A y \in S : x <= y

\* series.describe(): count, min and max (the other statistics are left out)
DescribeSeries(series) ==
    [ count |-> Len(series.values),
      min |-> Min(Range(series.values)),
      max |-> Max(Range(series.values)) ]

\* frame[cols].describe() of the measurement columns
DescribeFrame(frame) ==
    DescribeSeries([ index |-> << >>, values |-> frame.log_pm25.values ])

(***************************************************************************)
(* plotnine.  A manual scale is trained on the levels that occur in the    *)
(* data of its aesthetic (unused categories are dropped) and gives the     *)
(* k-th level the k-th listed colour; a level beyond the list gets none.   *)
(***************************************************************************)
NoColour == "none"

NaColour == "grey50"

\* factor(x)
Factor(col) == IF col.dtype = "category" THEN col ELSE AsCategory(col)

\* the levels of a discrete scale trained on a column
Levels(col) ==
    LET c == Factor(col)
        used == { c.values[i] : i \in 1..Len(c.values) } \ {-1}
    IN  Take(c.categories, [ k \in 1..Cardinality(used) |->
            1 + (CHOOSE u \in used : Cardinality({ w \in used : w < u }) = k - 1) ])

\* scale_fill_manual(values) / scale_color_manual(values): level -> colour
ManualScale(levels, values) ==
    [ k \in 1..Len(levels) |-> IF k <= Len(values) THEN values[k] ELSE NoColour ]

\* the colour of every row of a column under a manual scale
Colours(col, values) ==
    LET c == Factor(col)
        levels == Levels(c)
        palette == ManualScale(levels, values)
    IN  [ i \in 1..Len(c.values) |->
            IF IsNa(c, i) THEN NaColour ELSE palette[IndexOf(levels, Val(c, i))] ]

\* the legend of a manual scale: every level with its colour
Legend(col, values) ==
    LET levels == Levels(col)
        palette == ManualScale(levels, values)
    IN  [ k \in 1..Len(levels) |-> << levels[k], palette[k] >> ]

\* geom_bar: the number of rows of every level of x
BarCounts(col) ==
    LET c == Factor(col)
        levels == Levels(c)
    IN  [ k \in 1..Len(levels) |->
            Cardinality({ i \in 1..Len(c.values) : ~IsNa(c, i) /\ Val(c, i) = levels[k] }) ]

SuperMapColours ==
    << "red", "orange", "magenta", "green", "purple", "blue", "cyan", "ivory" >>

SuperColours == << "red", "orange", "magenta", "green", "purple", "blue", "cyan" >>

\* mutant of ClusterColours: one colour per cluster and none for the added one
ClusterColours_Short == << "red", "orange", "magenta", "green", "purple", "cyan" >>

ClusterColours == << "red", "orange", "magenta", "green", "purple", "cyan", "ivory" >>

(***************************************************************************)
(* The kernel.  ns.bound holds the names that are assigned; a name that is *)
(* not assigned holds Undefined.  A cell gives the namespace it leaves,    *)
(* its status (ok or the exception that ended it) and its output.          *)
(***************************************************************************)
Undefined == << >>

ImportNames == { "os", "np", "pd", "gpd", "plt", "p9", "warnings" }

FreshKernel ==
    [ bound |-> {}, pm_gdf |-> Undefined, world_map_gdf |-> Undefined,
      countries |-> Undefined, world_map_plus_gdf |-> Undefined,
      monitors_per_country |-> Undefined ]

Assign(n, name, v) == [ n EXCEPT !.bound = @ \cup {name}, ![name] = v ]

Result(n, value) == [ ns |-> n, status |-> "ok", value |-> value ]

Raise(n, exception) == [ ns |-> n, status |-> exception, value |-> Undefined ]

Plot(fill, color, data) == [ fill |-> fill, color |-> color, data |-> data ]

Table(data) == Plot(<< >>, << >>, data)

\* mutant of CellOrder: the first map is drawn before the join cell
CellOrder_MapBeforeJoin ==
    << "import", "load", "head", "monitor_map", "join", "describe",
       "pollution_map", "super_region_bar", "monitors_per_country",
       "value_counts", "country_bar", "describe_again", "pooled_regression",
       "group_regression", "super_region_lines", "cluster_describe",
       "cluster_bar", "cluster_map", "cluster_lines", "super_region_lines_again" >>

\* the code cells from top to bottom
CellOrder ==
    << "import", "load", "head", "join", "monitor_map", "describe",
       "pollution_map", "super_region_bar", "monitors_per_country",
       "value_counts", "country_bar", "describe_again", "pooled_regression",
       "group_regression", "super_region_lines", "cluster_describe",
       "cluster_bar", "cluster_map", "cluster_lines", "super_region_lines_again" >>

\* the cells after the join cell
PlotCells == Range(CellOrder) \ { "import", "load", "head", "join" }

\* the names a cell reads
Reads(cell) ==
    CASE cell = "import" -> {}
      [] cell = "load" -> { "gpd" }
      [] cell = "join" -> { "gpd", "pm_gdf" }
      [] cell \in { "monitor_map", "pollution_map", "cluster_map" } ->
            { "p9", "world_map_plus_gdf", "pm_gdf" }
      [] cell \in { "head", "describe", "describe_again", "monitors_per_country",
                    "value_counts", "cluster_describe" } -> { "pm_gdf" }
      [] OTHER -> { "p9", "pm_gdf" }

\* import ... ; p9.theme_set(...)
ImportBody(n) == Result([ n EXCEPT !.bound = @ \cup ImportNames ], Undefined)

\* pm_gdf.info()
Info(frame) ==
    [ rows |-> NRows(frame), dtypes |-> [ c \in DOMAIN frame |-> frame[c].dtype ] ]

\* pm_gdf = gpd.read_file(..); pm_gdf = pm_gdf.astype({.. 'category' ..})
LoadBody(n, f) ==
    IF ~(Reads("load") \subseteq n.bound) THEN Raise(n, "NameError")
    ELSE LET raw == ReadAir(f.air)
             pm == AsType(raw, SelectDtypes(raw))
         IN  Result(Assign(n, "pm_gdf", pm), Info(pm))

\* pm_gdf[[...]][:5]
HeadBody(n) ==
    IF ~(Reads("head") \subseteq n.bound) THEN Raise(n, "NameError")
    ELSE LET rows == NRows(n.pm_gdf)
             m == IF rows < 5 THEN rows ELSE 5
         IN  Result(n, Table(TakeRows(n.pm_gdf, [ k \in 1..m |-> k ])))

\* mutant of Countries: the duplicates are not dropped
Countries_KeepDuplicates(pm) ==
    Columns(pm, { "iso3", "super_region_name", "cluster_region" })

\* pm_gdf[['iso3','super_region_name','cluster_region']].drop_duplicates(subset=['iso3'])
Countries(pm) ==
    DropDuplicates(Columns(pm, { "iso3", "super_region_name", "cluster_region" }), "iso3")

\* the category added for the countries without a cluster
UnknownCluster == 7

\* the category added for the countries without a super-region
UnknownSuperRegion == "NA"

\* frame[c] = frame[c].cat.add_categories([v]); frame[c] = frame[[c]].fillna(v)
\* on the frame bound to world_map_plus_gdf
AddAndFill(n, c, v) ==
    LET added == AddCategories(n.world_map_plus_gdf[c], << v >>)
    IN  IF added.status # "ok" THEN Raise(n, added.status)
        ELSE LET n1 == Assign(n, "world_map_plus_gdf",
                              SetColumn(n.world_map_plus_gdf, c, added.col))
                 filled == Fillna(n1.world_map_plus_gdf[c], v)
             IN  IF filled.status # "ok" THEN Raise(n1, filled.status)
                 ELSE Result(Assign(n1, "world_map_plus_gdf",
                                    SetColumn(n1.world_map_plus_gdf, c, filled.col)),
                             Undefined)

\* the join cell, statement by statement; an exception keeps what the
\* statements before it assigned
JoinBody(n, f) ==
    IF "gpd" \notin n.bound THEN Raise(n, "NameError")
    ELSE LET n1 == Assign(n, "world_map_gdf", ReadMap(f.map))
         IN  IF "pm_gdf" \notin n1.bound THEN Raise(n1, "NameError")
             ELSE LET n2 == Assign(n1, "countries", Countries(n1.pm_gdf))
                      n3 == Assign(n2, "world_map_plus_gdf",
                                Merge(n2.world_map_gdf, n2.countries,
                                      "ISO_A3", "iso3", "left"))
                      r4 == AddAndFill(n3, "cluster_region", UnknownCluster)
                  IN  IF r4.status # "ok" THEN r4
                      ELSE AddAndFill(r4.ns, "super_region_name", UnknownSuperRegion)

\* geom_map(world_map_plus_gdf, fill=super_region_name)
\* + geom_point(pm_gdf, color=factor(super_region_name)), both scales manual
MonitorMapBody(n) ==
    IF ~(Reads("monitor_map") \subseteq n.bound) THEN Raise(n, "NameError")
    ELSE Result(n, Plot(Colours(n.world_map_plus_gdf.super_region_name, SuperMapColours),
                        Colours(n.pm_gdf.super_region_name, SuperMapColours),
                        Legend(n.pm_gdf.super_region_name, SuperMapColours)))

\* pm_gdf[['log_pm25', 'log_sat']].describe()
DescribeBody(n) ==
    IF ~(Reads("describe") \subseteq n.bound) THEN Raise(n, "NameError")
    ELSE Result(n, Table(DescribeFrame(n.pm_gdf)))

\* geom_map(world_map_plus_gdf, fill=super_region_name)
\* + geom_point(pm_gdf, color=log_pm25) on a colour gradient
PollutionMapBody(n) ==
    IF ~(Reads("pollution_map") \subseteq n.bound) THEN Raise(n, "NameError")
    ELSE Result(n, Plot(Colours(n.world_map_plus_gdf.super_region_name, SuperMapColours),
                        << >>, n.pm_gdf.log_pm25.values))

\* geom_bar(pm_gdf, x=factor(super_region_name), fill=factor(super_region_name))
SuperRegionBarBody(n) ==
    IF ~(Reads("super_region_bar") \subseteq n.bound) THEN Raise(n, "NameError")
    ELSE Result(n, Plot(ManualScale(Levels(n.pm_gdf.super_region_name), SuperColours),
                        << >>, BarCounts(n.pm_gdf.super_region_name)))

\* mutant of MonitorsPerCountry: sorted in increasing order
MonitorsPerCountry_Ascending(pm) == SortValues(GroupBySize(pm, "iso3"), TRUE)

\* pm_gdf.groupby('iso3').size().sort_values(ascending=False)
MonitorsPerCountry(pm) == SortValues(GroupBySize(pm, "iso3"), FALSE)

\* mutant of MonitorsPerCountryBody: pm_gdf is sorted by country in place
\* before it is counted
MonitorsPerCountryBody_SortInPlace(n) ==
    IF ~({ "pm_gdf" } \subseteq n.bound) THEN Raise(n, "NameError")
    ELSE LET rows == NRows(n.pm_gdf)
             key == [ i \in 1..rows |-> n.pm_gdf.iso3.values[i] * (rows + 1) + i ]
             n1 == Assign(n, "pm_gdf", TakeRows(n.pm_gdf, SortedBy(1..rows, key)))
             n2 == Assign(n1, "monitors_per_country",
                          SortValues(GroupBySize(n1.pm_gdf, "iso3"), FALSE))
         IN  Result(n2, Table(HeadRows(n2.monitors_per_country, 5)))

\* monitors_per_country = ...; monitors_per_country.head(5)
MonitorsPerCountryBody(n) ==
    IF ~(Reads("monitors_per_country") \subseteq n.bound) THEN Raise(n, "NameError")
    ELSE LET n1 == Assign(n, "monitors_per_country", MonitorsPerCountry(n.pm_gdf))
         IN  Result(n1, Table(HeadRows(n1.monitors_per_country, 5)))

\* pm_gdf[['iso3']].value_counts().describe()
ValueCountsOutput(pm) == DescribeSeries(ValueCounts(pm, "iso3"))

ValueCountsBody(n) ==
    IF ~(Reads("value_counts") \subseteq n.bound) THEN Raise(n, "NameError")
    ELSE Result(n, Table(ValueCountsOutput(n.pm_gdf)))

\* geom_bar(pm_gdf, x=factor(iso3), fill=factor(super_region_name))
CountryBarBody(n) ==
    IF ~(Reads("country_bar") \subseteq n.bound) THEN Raise(n, "NameError")
    ELSE Result(n, Plot(Colours(n.pm_gdf.super_region_name, SuperColours),
                        << >>, BarCounts(n.pm_gdf.iso3)))

\* geom_point(color=factor(super_region_name)) + one grey geom_smooth
PooledRegressionBody(n) ==
    IF ~(Reads("pooled_regression") \subseteq n.bound) THEN Raise(n, "NameError")
    ELSE Result(n, Plot(<< >>, Colours(n.pm_gdf.super_region_name, SuperColours),
                        n.pm_gdf.log_pm25.values))

\* geom_point + geom_smooth, color and group = factor(super_region_name)
GroupRegressionBody(n) ==
    IF ~(Reads("group_regression") \subseteq n.bound) THEN Raise(n, "NameError")
    ELSE Result(n, Plot(<< >>, Colours(n.pm_gdf.super_region_name, SuperColours),
                        Legend(n.pm_gdf.super_region_name, SuperColours)))

\* geom_smooth, color and group = factor(super_region_name)
SuperRegionLinesBody(n) ==
    IF ~(Reads("super_region_lines") \subseteq n.bound) THEN Raise(n, "NameError")
    ELSE Result(n, Plot(<< >>,
                        ManualScale(Levels(n.pm_gdf.super_region_name), SuperColours),
                        Legend(n.pm_gdf.super_region_name, SuperColours)))

\* pm_gdf.groupby('cluster_region')[['log_pm25']].describe()
ClusterDescribeBody(n) ==
    IF ~(Reads("cluster_describe") \subseteq n.bound) THEN Raise(n, "NameError")
    ELSE Result(n, Table(GroupBySize(n.pm_gdf, "cluster_region")))

\* geom_bar(pm_gdf, x=cluster_region, fill=cluster_region)
ClusterBarBody(n) ==
    IF ~(Reads("cluster_bar") \subseteq n.bound) THEN Raise(n, "NameError")
    ELSE Result(n, Plot(ManualScale(Levels(n.pm_gdf.cluster_region), ClusterColours),
                        << >>, BarCounts(n.pm_gdf.cluster_region)))

\* geom_map(world_map_plus_gdf, fill=cluster_region)
\* + geom_point(pm_gdf, color=factor(cluster_region))
ClusterMapBody(n) ==
    IF ~(Reads("cluster_map") \subseteq n.bound) THEN Raise(n, "NameError")
    ELSE Result(n, Plot(Colours(n.world_map_plus_gdf.cluster_region, ClusterColours),
                        Colours(n.pm_gdf.cluster_region, ClusterColours),
                        n.pm_gdf.log_pm25.values))

\* geom_smooth, color and group = cluster_region
ClusterLinesBody(n) ==
    IF ~(Reads("cluster_lines") \subseteq n.bound) THEN Raise(n, "NameError")
    ELSE Result(n, Plot(<< >>,
                        ManualScale(Levels(n.pm_gdf.cluster_region), ClusterColours),
                        Legend(n.pm_gdf.cluster_region, ClusterColours)))

(***************************************************************************)
(* Running cells.  With mode "run_all" the cells run once from top to      *)
(* bottom and the run stops at the first exception; with mode              *)
(* "interactive" any cell may run at any time, as often as wanted.         *)
(***************************************************************************)
NoOutput == [ cell |-> "none", status |-> "ok", value |-> Undefined ]

Init ==
    /\ files \in [ air : AirFiles, map : MapFiles ]
    /\ ns = FreshKernel
    /\ out = NoOutput
    /\ pc = 1
    /\ mode = "run_all"

\* the interactive session, on a map with one row of each ISO code
InitInteractive ==
    /\ files \in [ air : AirFiles,
                   map : { MapFile(<< World[1].iso3, "-99", World[3].iso3 >>) } ]
    /\ ns = FreshKernel
    /\ out = NoOutput
    /\ pc = 1
    /\ mode = "interactive"

MayRun(cell) ==
    mode = "run_all" => /\ pc <= Len(CellOrder)
                        /\ CellOrder[pc] = cell
                        /\ out.status = "ok"

Run(cell, r) ==
    /\ ns' = r.ns
    /\ out' = [ cell |-> cell, status |-> r.status, value |-> r.value ]
    /\ pc' = IF mode = "run_all" THEN pc + 1 ELSE pc
    /\ UNCHANGED << files, mode >>

ImportCell == MayRun("import") /\ Run("import", ImportBody(ns))

LoadCell == MayRun("load") /\ Run("load", LoadBody(ns, files))

HeadCell == MayRun("head") /\ Run("head", HeadBody(ns))

JoinCell == MayRun("join") /\ Run("join", JoinBody(ns, files))

MonitorMapCell == MayRun("monitor_map") /\ Run("monitor_map", MonitorMapBody(ns))

DescribeCell == MayRun("describe") /\ Run("describe", DescribeBody(ns))

PollutionMapCell == MayRun("pollution_map") /\ Run("pollution_map", PollutionMapBody(ns))

SuperRegionBarCell ==
    MayRun("super_region_bar") /\ Run("super_region_bar", SuperRegionBarBody(ns))

MonitorsPerCountryCell ==
    MayRun("monitors_per_country")
        /\ Run("monitors_per_country", MonitorsPerCountryBody(ns))

ValueCountsCell == MayRun("value_counts") /\ Run("value_counts", ValueCountsBody(ns))

CountryBarCell == MayRun("country_bar") /\ Run("country_bar", CountryBarBody(ns))

DescribeAgainCell == MayRun("describe_again") /\ Run("describe_again", DescribeBody(ns))

PooledRegressionCell ==
    MayRun("pooled_regression") /\ Run("pooled_regression", PooledRegressionBody(ns))

GroupRegressionCell ==
    MayRun("group_regression") /\ Run("group_regression", GroupRegressionBody(ns))

SuperRegionLinesCell ==
    MayRun("super_region_lines") /\ Run("super_region_lines", SuperRegionLinesBody(ns))

ClusterDescribeCell ==
    MayRun("cluster_describe") /\ Run("cluster_describe", ClusterDescribeBody(ns))

ClusterBarCell == MayRun("cluster_bar") /\ Run("cluster_bar", ClusterBarBody(ns))

ClusterMapCell == MayRun("cluster_map") /\ Run("cluster_map", ClusterMapBody(ns))

ClusterLinesCell == MayRun("cluster_lines") /\ Run("cluster_lines", ClusterLinesBody(ns))

SuperRegionLinesAgainCell ==
    MayRun("super_region_lines_again")
        /\ Run("super_region_lines_again", SuperRegionLinesBody(ns))

Next ==
    \/ ImportCell
    \/ LoadCell
    \/ HeadCell
    \/ JoinCell
    \/ MonitorMapCell
    \/ DescribeCell
    \/ PollutionMapCell
    \/ SuperRegionBarCell
    \/ MonitorsPerCountryCell
    \/ ValueCountsCell
    \/ CountryBarCell
    \/ DescribeAgainCell
    \/ PooledRegressionCell
    \/ GroupRegressionCell
    \/ SuperRegionLinesCell
    \/ ClusterDescribeCell
    \/ ClusterBarCell
    \/ ClusterMapCell
    \/ ClusterLinesCell
    \/ SuperRegionLinesAgainCell

Spec == Init /\ [][Next]_vars

SpecInteractive == InitInteractive /\ [][Next]_vars

(***************************************************************************)
(* The properties.                                                         *)
(***************************************************************************)
Bound(name) == name \in ns.bound

\* the rows of the air file of the country with ISO code iso
MonitorsOf(iso) == { k \in 1..Len(files.air) : files.air[k].iso3 = iso }

RECURSIVE SumSeq(_)
SumSeq(s) == IF s = << >> THEN 0 ELSE s[1] + SumSeq(Tail(s))

\* C1: the join cell is a left join of the map onto the per-country table:
\* world_map_plus_gdf has one row for every row of the map file, in the
\* order of the file and with the map's own columns as in the file, so no
\* map row is repeated or dropped and no country of the dataset adds a row.
LeftJoinKeepsMap ==
    Bound("world_map_plus_gdf") =>
        LET w == ns.world_map_plus_gdf
        IN  /\ NRows(w) = Len(files.map)
            /\ w.NE_ID.dtype = "int"
            /\ w.ISO_A3.dtype = "object"
            /\ \A i \in 1..Len(files.map) :
                /\ ~IsNa(w.NE_ID, i) /\ Val(w.NE_ID, i) = files.map[i].NE_ID
                /\ ~IsNa(w.ISO_A3, i) /\ Val(w.ISO_A3, i) = files.map[i].ISO_A3

\* the join has run on a map in which two rows share the ISO code of a
\* country with several monitors, and the dataset has a country that is
\* not on the map
LeftJoinWitness ==
    /\ Bound("world_map_plus_gdf")
    /\ out.status = "ok"
    /\ \E i, j \in 1..Len(files.map) :
        /\ i # j
        /\ files.map[i].ISO_A3 = files.map[j].ISO_A3
        /\ Cardinality(MonitorsOf(files.map[i].ISO_A3)) > 1
    /\ \E k \in 1..Len(files.air) :
        \A i \in 1..Len(files.map) : files.map[i].ISO_A3 # files.air[k].iso3

\* C2: after the join cell no row of world_map_plus_gdf has a missing
\* super_region_name or cluster_region: a map row whose ISO_A3 is the iso3
\* of some monitor has that country's super-region and cluster as in the
\* air file, and every other row has 'NA' and 7.
NoNullRegions ==
    Bound("world_map_plus_gdf") =>
        LET w == ns.world_map_plus_gdf
        IN  \A i \in 1..NRows(w) :
                /\ ~IsNa(w.super_region_name, i)
                /\ ~IsNa(w.cluster_region, i)
                /\ LET monitors == MonitorsOf(files.map[i].ISO_A3)
                   IN  IF monitors # {}
                       THEN \A k \in monitors :
                              /\ Val(w.super_region_name, i) = files.air[k].super_region_name
                              /\ Val(w.cluster_region, i) = files.air[k].cluster_region
                       ELSE /\ Val(w.super_region_name, i) = "NA"
                            /\ Val(w.cluster_region, i) = 7

\* the join has run on a map with a row of no surveyed country and two
\* rows of surveyed countries of different super-regions
NoNullRegionsWitness ==
    /\ Bound("world_map_plus_gdf")
    /\ out.status = "ok"
    /\ \E i \in 1..Len(files.map) : MonitorsOf(files.map[i].ISO_A3) = {}
    /\ \E i, j \in 1..Len(files.map) :
        /\ MonitorsOf(files.map[i].ISO_A3) # {}
        /\ MonitorsOf(files.map[j].ISO_A3) # {}
        /\ Val(ns.world_map_plus_gdf.super_region_name, i)
             # Val(ns.world_map_plus_gdf.super_region_name, j)

\* the namespace after the import and load cells have each run once on a
\* fresh kernel
Loaded == LoadBody(ImportBody(FreshKernel).ns, files).ns

\* the namespace after the import, load and join cells have each run once
\* on a fresh kernel
Pipeline == JoinBody(Loaded, files).ns

\* the output of a plot or table cell on the namespace n
OutputOf(cell, n) ==
    CASE cell = "monitor_map" -> MonitorMapBody(n).value
      [] cell \in { "describe", "describe_again" } -> DescribeBody(n).value
      [] cell = "pollution_map" -> PollutionMapBody(n).value
      [] cell = "super_region_bar" -> SuperRegionBarBody(n).value
      [] cell = "monitors_per_country" -> MonitorsPerCountryBody(n).value
      [] cell = "value_counts" -> ValueCountsBody(n).value
      [] cell = "country_bar" -> CountryBarBody(n).value
      [] cell = "pooled_regression" -> PooledRegressionBody(n).value
      [] cell = "group_regression" -> GroupRegressionBody(n).value
      [] cell \in { "super_region_lines", "super_region_lines_again" } ->
            SuperRegionLinesBody(n).value
      [] cell = "cluster_describe" -> ClusterDescribeBody(n).value
      [] cell = "cluster_bar" -> ClusterBarBody(n).value
      [] cell = "cluster_map" -> ClusterMapBody(n).value
      [] cell = "cluster_lines" -> ClusterLinesBody(n).value

\* C3: the plot and table cells after the join are independent: whatever
\* cells have run before, in whatever order and however often, pm_gdf and
\* world_map_plus_gdf are the tables the load and join cells made of the
\* files, and a plot or table cell that ran through shows what it shows
\* when the notebook is run once from top to bottom.
PlotCellsIndependent ==
    /\ Bound("pm_gdf") => ns.pm_gdf = Loaded.pm_gdf
    /\ Bound("world_map_plus_gdf") => ns.world_map_plus_gdf = Pipeline.world_map_plus_gdf
    /\ (out.cell \in PlotCells /\ out.status = "ok") =>
            out.value = OutputOf(out.cell, Pipeline)

\* the first map cell ran through after the later monitors_per_country cell
PlotCellsIndependentWitness ==
    /\ mode = "interactive"
    /\ out.cell = "monitor_map"
    /\ out.status = "ok"
    /\ Bound("monitors_per_country")
    /\ Len(files.air) > 1

\* C4: run once from top to bottom, every cell finds the names it reads
\* assigned by the cells before it: no cell ends in a NameError, and the
\* next cell to run reads only names that are bound.
ReadsAreBound ==
    /\ out.status # "NameError"
    /\ (mode = "run_all" /\ pc <= Len(CellOrder) /\ out.status = "ok") =>
            Reads(CellOrder[pc]) \subseteq ns.bound

\* the whole notebook has run
ReadsAreBoundWitness ==
    /\ mode = "run_all"
    /\ pc = Len(CellOrder) + 1
    /\ out.cell = CellOrder[Len(CellOrder)]
    /\ out.status = "ok"
    /\ { "pm_gdf", "world_map_plus_gdf", "monitors_per_country" } \subseteq ns.bound

\* C5: the two add_categories calls never end in an error: after the load
\* cell super_region_name and cluster_region are categorical, they are
\* still categorical in the result of the left join, and 7 and 'NA' are
\* not among the categories of the dataset.
AddCategoriesSucceeds ==
    /\ out.status \notin { "AttributeError", "ValueError" }
    /\ Bound("pm_gdf") =>
        /\ ns.pm_gdf.super_region_name.dtype = "category"
        /\ ns.pm_gdf.cluster_region.dtype = "category"
        /\ UnknownSuperRegion \notin Range(ns.pm_gdf.super_region_name.categories)
        /\ UnknownCluster \notin Range(ns.pm_gdf.cluster_region.categories)
    /\ (Bound("world_map_gdf") /\ Bound("countries")) =>
        LET merged == Merge(ns.world_map_gdf, ns.countries, "ISO_A3", "iso3", "left")
        IN  /\ merged.super_region_name.dtype = "category"
            /\ merged.cluster_region.dtype = "category"

\* the join cell ran through on a map with a row of no surveyed country,
\* and both categories were added
AddCategoriesWitness ==
    /\ out.cell = "join"
    /\ out.status = "ok"
    /\ \E i \in 1..Len(files.map) : MonitorsOf(files.map[i].ISO_A3) = {}
    /\ UnknownCluster \in Range(ns.world_map_plus_gdf.cluster_region.categories)
    /\ UnknownSuperRegion \in Range(ns.world_map_plus_gdf.super_region_name.categories)

\* C6: every manual colour scale lists at least as many colours as the
\* variable it colours has categories, on the observations and on the map,
\* and no plot that was drawn has a level without a colour.
EnoughColours ==
    /\ Bound("pm_gdf") =>
        /\ Len(ns.pm_gdf.super_region_name.categories) <= Len(SuperColours)
        /\ Len(ns.pm_gdf.super_region_name.categories) <= Len(SuperMapColours)
        /\ Len(ns.pm_gdf.cluster_region.categories) <= Len(ClusterColours)
    /\ Bound("world_map_plus_gdf") =>
        /\ Len(ns.world_map_plus_gdf.super_region_name.categories) <= Len(SuperMapColours)
        /\ Len(ns.world_map_plus_gdf.cluster_region.categories) <= Len(ClusterColours)
    /\ (out.cell \in PlotCells /\ out.status = "ok") =>
        NoColour \notin Range(out.value.fill) \cup Range(out.value.color)

\* the cluster map was drawn for a dataset with all the super-regions and
\* clusters: the map's variables have as many categories as colours listed
EnoughColoursWitness ==
    /\ out.cell = "cluster_map"
    /\ out.status = "ok"
    /\ Len(ns.world_map_plus_gdf.cluster_region.categories) = Len(ClusterColours)
    /\ Len(ns.world_map_plus_gdf.super_region_name.categories) = Len(SuperMapColours)
    /\ Len(ns.pm_gdf.super_region_name.categories) = Len(SuperColours)

\* C7: monitors_per_country has one entry for every country of the air
\* file, each with the number of that country's monitors (none is 0), the
\* counts sum to the number of observations and are in non-increasing
\* order, head(5) shows the first five of them, each at least as large as
\* every count it leaves out, and the number of countries equals the count
\* of the value_counts summary and the rows of the per-country table.
MonitorCountsConsistent ==
    Bound("monitors_per_country") =>
        LET m == ns.monitors_per_country
            n == Len(m.index)
        IN  /\ Len(m.values) = n
            /\ Range(m.index) = { files.air[k].iso3 : k \in 1..Len(files.air) }
            /\ \A i, j \in 1..n : m.index[i] = m.index[j] => i = j
            /\ \A i \in 1..n :
                /\ m.values[i] = Cardinality(MonitorsOf(m.index[i]))
                /\ m.values[i] > 0
            /\ SumSeq(m.values) = Len(files.air)
            /\ \A i \in 1..(n - 1) : m.values[i] >= m.values[i + 1]
            /\ n = ValueCountsOutput(ns.pm_gdf).count
            /\ Bound("countries") => n = NRows(ns.countries)
            /\ out.cell = "monitors_per_country" =>
                LET shown == out.value.data
                IN  /\ Len(shown.values) = IF n < 5 THEN n ELSE 5
                    /\ \A i \in 1..Len(shown.values) :
                        /\ shown.index[i] = m.index[i]
                        /\ shown.values[i] = m.values[i]
                        /\ \A j \in (Len(shown.values) + 1)..n :
                            shown.values[i] >= m.values[j]

\* the monitors of more than five countries were counted, one country has
\* several monitors, and head(5) was shown
MonitorCountsWitness ==
    /\ out.cell = "monitors_per_country"
    /\ out.status = "ok"
    /\ Len(ns.monitors_per_country.index) > 5
    /\ \E i \in 1..Len(ns.monitors_per_country.values) :
        ns.monitors_per_country.values[i] > 1
    /\ Bound("countries")

====
